---- MODULE Spec2Model ----
(***************************************************************************)
(* A model of cogent/util/parallel.py: the communicator stack (push, pop,  *)
(* getCommunicator), getSplitCommunicators, the localShareOf /             *)
(* _ParallelIter work distributor run by every rank of an MPI job, and the *)
(* ParaRandom phased random number generator.                              *)
(*                                                                         *)
(* A process is named by its rank in COMM_WORLD.  A communicator object is *)
(* a record [kind, id, members]: `id' stands for the object's identity     *)
(* (Python `is'), `members' for the world ranks of the group.  Python's    *)
(* 0-based indexes are kept; a sequence element values[i] is read as       *)
(* values[i + 1].                                                          *)
(***************************************************************************)
EXTENDS Integers, Sequences, FiniteSets, TLC

\* Largest number of MPI processes of a run.
MaxSize == 4
\* Largest number of items handed to localShareOf.
MaxItems == 4
\* Largest num_proc handed to ParaRandom.
MaxProc == 4
\* Largest number of random() calls on one ParaRandom.
MaxCalls == 3
\* Largest number of push and pop calls of a run of the stack alone.
MaxOps == 5
\* Largest jobs handed to a direct getSplitCommunicators call.
MaxJobs == 5
\* Largest num_proc of either layer of a nested ParaRandom.
MaxNestProc == 3

VARIABLES
    nprocs,     \* MPI.COMM_WORLD.Get_size() of the run
    values,     \* the list handed to localShareOf (the same on every rank)
    pc,         \* per rank: where the rank is in `for x in localShareOf(values)'
    cpus,       \* per rank: localShareOf.cpus / _ParallelIter.cpus
    leftover,   \* per rank: localShareOf.leftover / _ParallelIter.leftover
    i,          \* per rank: _ParallelIter.i
    stack,      \* per rank: _ParallelisationStack
    barriers,   \* per rank: Barrier() calls made so far on cpus and on leftover
    yielded,    \* per rank: the items next() has returned, in order
    exit,       \* per rank: how the loop was left
    dels,       \* per rank: number of times _ParallelIter.__del__ has run
    log,        \* per rank: the push, Barrier and pop calls of the iteration
    num_proc,   \* ParaRandom._num_proc, the same on every rank
    made,       \* per rank: whether ParaRandom(base, num_proc, rank) was made
    rng,        \* per rank: draws taken so far from the base source (_rng)
    out,        \* per rank: the draws ParaRandom.random() has returned, in order
    pstack,     \* _ParallelisationStack of a process calling push and pop
    hist,       \* the push and pop calls made on pstack, in order
    jobs,       \* the argument of a direct getSplitCommunicators(jobs) call
    spc,        \* per rank: where the rank is in that call
    sres,       \* per rank: the pair (next, sub) the call returned
    splits,     \* per rank: number of comm.Split calls made
    nestP,      \* <<P1, P2>>: num_proc of the wrapped and of the wrapping ParaRandom
    nestRank,   \* per process: <<r1, r2>>, its rank in each of the two layers
    nestMade,   \* per process: whether its two ParaRandom layers were made
    nestRng,    \* per process: draws taken so far from its base source
    nestOut     \* per process: the draws the wrapping random() has returned

shareVars == <<nprocs, values, pc, cpus, leftover, i, stack, barriers,
               yielded, exit, dels, log>>

randVars == <<num_proc, made, rng, out>>

stackVars == <<pstack, hist>>

splitVars == <<jobs, spc, sres, splits>>

nestVars == <<nestP, nestRank, nestMade, nestRng, nestOut>>

vars == <<shareVars, randVars, stackVars, splitVars, nestVars>>

Min(a, b) == IF a < b THEN a ELSE b

Procs == 0 .. (nprocs - 1)

-----------------------------------------------------------------------------
(* Communicators *)

\* Python None where a communicator is expected.
NoComm == [kind |-> "none", id |-> <<0, 0>>, members |-> {}]

\* A fresh _FakeCommunicator() object made by process `owner'.
FakeCommunicator(owner, serial) ==
    [kind |-> "fake", id |-> <<owner, serial>>, members |-> {owner}]

\* MPI.COMM_WORLD of a run with n processes.
COMM_WORLD(n) == [kind |-> "world", id |-> <<0, 0>>, members |-> 0 .. (n - 1)]

\* The initial content of _ParallelisationStack on process p.
BaseCommunicator(n, p) ==
    IF n = 1 THEN FakeCommunicator(p, 0) ELSE COMM_WORLD(n)

\* comm.Get_rank() as seen by process p.  Every communicator of the module
\* is made with key = rank, so the members are ordered as in COMM_WORLD.
Get_rank(comm, p) ==
    IF comm.kind = "fake" THEN 0
    ELSE Cardinality({m \in comm.members : m < p})

Get_size(comm) ==
    IF comm.kind = "fake" THEN 1 ELSE Cardinality(comm.members)

\* comm.Split(colour, key) as seen by process p, where colour[m] is the
\* colour member m supplies in the same collective call and callNo tells the
\* module's two Split calls apart (each call makes new objects).
Split(comm, colour, callNo, p) ==
    [kind |-> "split", id |-> <<callNo, colour[p]>>,
     members |-> {m \in comm.members : colour[m] = colour[p]}]

-----------------------------------------------------------------------------
(* The communicator stack *)

\* push that puts the communicator at the bottom of the list.
push_front(stk, context) == <<context>> \o stk

push(stk, context) == Append(stk, context)

\* pop that compares the groups, not the objects.
pop_by_equality(stk, context) ==
    IF stk = <<>>
    THEN [stack |-> stk, ret |-> NoComm, err |-> "IndexError"]
    ELSE LET context2 == stk[Len(stk)]
             rest == SubSeq(stk, 1, Len(stk) - 1)
         IN  IF context /= NoComm /\ context2.members /= context.members
             THEN [stack |-> rest, ret |-> NoComm, err |-> "AssertionError"]
             ELSE [stack |-> rest, ret |-> context2, err |-> "none"]

\* pop that looks at the top before removing it.
pop_check_first(stk, context) ==
    IF stk = <<>>
    THEN [stack |-> stk, ret |-> NoComm, err |-> "IndexError"]
    ELSE LET context2 == stk[Len(stk)]
             rest == SubSeq(stk, 1, Len(stk) - 1)
         IN  IF context /= NoComm /\ context2 /= context
             THEN [stack |-> stk, ret |-> NoComm, err |-> "AssertionError"]
             ELSE [stack |-> rest, ret |-> context2, err |-> "none"]

\* pop(context): the list's pop() comes first, so a failed assertion
\* leaves the element removed; on an empty list pop() raises IndexError.
pop(stk, context) ==
    IF stk = <<>>
    THEN [stack |-> stk, ret |-> NoComm, err |-> "IndexError"]
    ELSE LET context2 == stk[Len(stk)]
             rest == SubSeq(stk, 1, Len(stk) - 1)
         IN  IF context /= NoComm /\ context2 /= context
             THEN [stack |-> rest, ret |-> NoComm, err |-> "AssertionError"]
             ELSE [stack |-> rest, ret |-> context2, err |-> "none"]

getCommunicator(stk) == stk[Len(stk)]

\* An assertion that lets jobs = 0 through.
JobsAccepted_zero_too(j) == j >= 0

\* assert jobs > 0
JobsAccepted(j) == j > 0

\* Both Split calls coloured by rank // group_count.
getSplitCommunicators_one_colour(comm, p, j) ==
    LET size == Get_size(comm)
        group_count == Min(j, size)
    IN  IF group_count = 1
        THEN <<FakeCommunicator(p, 1), comm>>
        ELSE IF group_count = size
        THEN <<comm, FakeCommunicator(p, 1)>>
        ELSE <<Split(comm, [m \in comm.members |->
                               Get_rank(comm, m) \div group_count], 1, p),
               Split(comm, [m \in comm.members |->
                               Get_rank(comm, m) \div group_count], 2, p)>>

\* The pair returned the wrong way round when every rank is its own group.
getSplitCommunicators_swapped(comm, p, j) ==
    LET size == Get_size(comm)
        group_count == Min(j, size)
    IN  IF group_count = 1 \/ group_count = size
        THEN <<FakeCommunicator(p, 1), comm>>
        ELSE <<Split(comm, [m \in comm.members |->
                               Get_rank(comm, m) \div group_count], 1, p),
               Split(comm, [m \in comm.members |->
                               Get_rank(comm, m) % group_count], 2, p)>>

\* getSplitCommunicators(jobs) on process p with comm = getCommunicator(),
\* for jobs > 0: the pair (next, sub).
getSplitCommunicators(comm, p, j) ==
    LET size == Get_size(comm)
        rank == Get_rank(comm, p)
        group_count == Min(j, size)
    IN  IF group_count = 1
        THEN <<FakeCommunicator(p, 1), comm>>
        ELSE IF group_count = size
        THEN <<comm, FakeCommunicator(p, 1)>>
        ELSE <<Split(comm, [m \in comm.members |->
                               Get_rank(comm, m) \div group_count], 1, p),
               Split(comm, [m \in comm.members |->
                               Get_rank(comm, m) % group_count], 2, p)>>

\* Whether getSplitCommunicators(jobs) reaches its two collective Split calls.
NeedsSplit(comm, j) ==
    Min(j, Get_size(comm)) /= 1 /\ Min(j, Get_size(comm)) /= Get_size(comm)

-----------------------------------------------------------------------------
(* The work distributor: every rank runs                                   *)
(*     for x in localShareOf(values): body                                 *)
(* pc: "start" -> ["split" ->] "loop" -> "next_barrier" -> "body" -> ...   *)
(*     -> "del" -> "del_barrier" -> "past"                                 *)

\* The list of n items: distinct objects, named by their position.
Items(n) == [k \in 1 .. n |-> <<"item", k - 1>>]

InitShare ==
    /\ nprocs \in 1 .. MaxSize
    /\ values \in {Items(n) : n \in 0 .. MaxItems}
    /\ pc = [r \in Procs |-> "start"]
    /\ cpus = [r \in Procs |-> NoComm]
    /\ leftover = [r \in Procs |-> NoComm]
    /\ i = [r \in Procs |-> 0]
    /\ stack = [r \in Procs |-> <<BaseCommunicator(nprocs, r)>>]
    /\ barriers = [r \in Procs |-> [cpus |-> 0, leftover |-> 0]]
    /\ yielded = [r \in Procs |-> <<>>]
    /\ exit = [r \in Procs |-> "none"]
    /\ dels = [r \in Procs |-> 0]
    /\ log = [r \in Procs |-> <<>>]
    /\ num_proc = 1 /\ made = <<>> /\ rng = <<>> /\ out = <<>>
    /\ pstack = <<>> /\ hist = <<>>
    /\ jobs = 1 /\ spc = <<>> /\ sres = <<>> /\ splits = <<>>
    /\ nestP = <<>> /\ nestRank = <<>> /\ nestMade = <<>>
    /\ nestRng = <<>> /\ nestOut = <<>>

\* Number of Barrier() calls process m has made on the communicator comm.
Arrivals(comm, m) ==
    (IF cpus[m] = comm THEN barriers[m].cpus ELSE 0)
    + (IF leftover[m] = comm THEN barriers[m].leftover ELSE 0)

\* comm.Barrier() called by process r returns: _FakeCommunicator.Barrier is
\* `pass'; an MPI barrier returns once every member has made as many
\* Barrier() calls on comm as r has.
BarrierReturns(comm, r) ==
    \/ comm.kind = "fake"
    \/ \A m \in comm.members : Arrivals(comm, m) >= Arrivals(comm, r)

\* The pair taken the other way round: the first pushed, the second strided.
StartIteration_swapped(r, pair) ==
    /\ cpus' = [cpus EXCEPT ![r] = pair[2]]
    /\ leftover' = [leftover EXCEPT ![r] = pair[1]]
    /\ i' = [i EXCEPT ![r] = Get_rank(pair[2], r)]
    /\ stack' = [stack EXCEPT ![r] = push(stack[r], pair[1])]
    /\ pc' = [pc EXCEPT ![r] = "loop"]
    /\ log' = [log EXCEPT ![r] = Append(@, [ev |-> "push", comm |-> pair[1]])]
    /\ UNCHANGED <<nprocs, values, barriers, yielded, exit, dels>>

\* localShareOf.__init__ from the pair getSplitCommunicators returned, then
\* __iter__ and _ParallelIter.__init__.
StartIteration(r, pair) ==
    /\ cpus' = [cpus EXCEPT ![r] = pair[1]]
    /\ leftover' = [leftover EXCEPT ![r] = pair[2]]
    /\ i' = [i EXCEPT ![r] = Get_rank(pair[1], r)]
    /\ stack' = [stack EXCEPT ![r] = push(stack[r], pair[2])]
    /\ pc' = [pc EXCEPT ![r] = "loop"]
    /\ log' = [log EXCEPT ![r] = Append(@, [ev |-> "push", comm |-> pair[2]])]
    /\ UNCHANGED <<nprocs, values, barriers, yielded, exit, dels>>

\* The for statement evaluates localShareOf(values): getSplitCommunicators
\* asserts jobs > 0, then either blocks in its collective Split calls or
\* returns at once, and the iterator is made.
localShareOf(r) ==
    /\ pc[r] = "start"
    /\ LET comm == getCommunicator(stack[r])
           njobs == Len(values)
       IN  IF ~JobsAccepted(njobs)
           THEN /\ pc' = [pc EXCEPT ![r] = "past"]
                /\ exit' = [exit EXCEPT ![r] = "AssertionError"]
                /\ UNCHANGED <<nprocs, values, log, cpus, leftover, i, stack,
                               barriers, yielded, dels>>
           ELSE IF NeedsSplit(comm, njobs)
           THEN /\ pc' = [pc EXCEPT ![r] = "split"]
                /\ UNCHANGED <<nprocs, values, log, cpus, leftover, i, stack,
                               barriers, yielded, exit, dels>>
           ELSE StartIteration(r, getSplitCommunicators(comm, r, njobs))

\* The two comm.Split calls return once every member of comm has made them.
SplitReturns(r) ==
    /\ pc[r] = "split"
    /\ LET comm == getCommunicator(stack[r])
       IN  /\ \A m \in comm.members : pc[m] /= "start"
           /\ StartIteration(r, getSplitCommunicators(comm, r, Len(values)))

\* _ParallelIter.next up to its self.leftover.Barrier() call.
ParallelIter_next(r) ==
    /\ pc[r] = "loop"
    /\ barriers' = [barriers EXCEPT ![r].leftover = @ + 1]
    /\ pc' = [pc EXCEPT ![r] = "next_barrier"]
    /\ log' = [log EXCEPT ![r] = Append(@, [ev |-> "barrier", comm |-> leftover[r]])]
    /\ UNCHANGED <<nprocs, values, cpus, leftover, i, stack, yielded, exit, dels>>

\* A stride of one whatever the size of cpus.
Advance_by_one(idx, comm) == idx + 1

\* self.i += self.cpus.Get_size()
Advance(idx, comm) == idx + Get_size(comm)

\* _ParallelIter.next after the barrier: StopIteration ends the loop, which
\* drops the last reference to the iterator; otherwise values[i] is returned.
ParallelIter_next_return(r) ==
    /\ pc[r] = "next_barrier"
    /\ BarrierReturns(leftover[r], r)
    /\ IF i[r] >= Len(values)
       THEN /\ pc' = [pc EXCEPT ![r] = "del"]
            /\ exit' = [exit EXCEPT ![r] = "exhausted"]
            /\ UNCHANGED <<i, yielded>>
       ELSE /\ yielded' = [yielded EXCEPT ![r] = Append(@, values[i[r] + 1])]
            /\ i' = [i EXCEPT ![r] = Advance(@, cpus[r])]
            /\ pc' = [pc EXCEPT ![r] = "body"]
            /\ UNCHANGED exit
    /\ UNCHANGED <<nprocs, values, log, cpus, leftover, stack, barriers, dels>>

\* The loop body ends and the loop asks for the next item.
BodyDone(r) ==
    /\ pc[r] = "body"
    /\ pc' = [pc EXCEPT ![r] = "loop"]
    /\ UNCHANGED <<nprocs, values, log, cpus, leftover, i, stack, barriers,
                   yielded, exit, dels>>

\* The loop body leaves the loop with `break' or by raising: either way the
\* interpreter drops the loop's reference to the iterator.
BodyLeaves(r, how) ==
    /\ pc[r] = "body"
    /\ pc' = [pc EXCEPT ![r] = "del"]
    /\ exit' = [exit EXCEPT ![r] = how]
    /\ UNCHANGED <<nprocs, values, log, cpus, leftover, i, stack, barriers,
                   yielded, dels>>

\* __del__ whose closing barrier is on leftover, like the one of next().
ParallelIter_del_on_leftover(r) ==
    /\ pc[r] = "del"
    /\ barriers' = [barriers EXCEPT ![r].leftover = @ + 1]
    /\ dels' = [dels EXCEPT ![r] = @ + 1]
    /\ pc' = [pc EXCEPT ![r] = "del_barrier"]
    /\ log' = [log EXCEPT ![r] = Append(@, [ev |-> "barrier", comm |-> leftover[r]])]
    /\ UNCHANGED <<nprocs, values, cpus, leftover, i, stack, yielded, exit>>

\* _ParallelIter.__del__ up to its self.cpus.Barrier() call.
ParallelIter_del(r) ==
    /\ pc[r] = "del"
    /\ barriers' = [barriers EXCEPT ![r].cpus = @ + 1]
    /\ dels' = [dels EXCEPT ![r] = @ + 1]
    /\ pc' = [pc EXCEPT ![r] = "del_barrier"]
    /\ log' = [log EXCEPT ![r] = Append(@, [ev |-> "barrier", comm |-> cpus[r]])]
    /\ UNCHANGED <<nprocs, values, cpus, leftover, i, stack, yielded, exit>>

\* __del__ that forgets the pop.
ParallelIter_del_return_nopop(r) ==
    /\ pc[r] = "del_barrier"
    /\ BarrierReturns(cpus[r], r)
    /\ pc' = [pc EXCEPT ![r] = "past"]
    /\ UNCHANGED <<nprocs, values, log, cpus, leftover, i, stack, barriers, yielded,
                   exit, dels>>

\* _ParallelIter.__del__ after the barrier: pop(self.leftover).  An
\* exception of __del__ is ignored by the interpreter.
ParallelIter_del_return(r) ==
    /\ pc[r] = "del_barrier"
    /\ BarrierReturns(cpus[r], r)
    /\ stack' = [stack EXCEPT ![r] = pop(stack[r], leftover[r]).stack]
    /\ pc' = [pc EXCEPT ![r] = "past"]
    /\ log' = [log EXCEPT ![r] = Append(@, [ev |-> "pop", comm |-> leftover[r]])]
    /\ UNCHANGED <<nprocs, values, cpus, leftover, i, barriers, yielded,
                   exit, dels>>

\* The variables of the other two parts stay at rest.
ShareOnly == UNCHANGED <<randVars, stackVars, splitVars, nestVars>>

NextShare ==
    \/ \E r \in Procs : localShareOf(r) /\ ShareOnly
    \/ \E r \in Procs : SplitReturns(r) /\ ShareOnly
    \/ \E r \in Procs : ParallelIter_next(r) /\ ShareOnly
    \/ \E r \in Procs : ParallelIter_next_return(r) /\ ShareOnly
    \/ \E r \in Procs : BodyDone(r) /\ ShareOnly
    \/ \E r \in Procs : BodyLeaves(r, "break") /\ ShareOnly
    \/ \E r \in Procs : BodyLeaves(r, "raise") /\ ShareOnly
    \/ \E r \in Procs : ParallelIter_del(r) /\ ShareOnly
    \/ \E r \in Procs : ParallelIter_del_return(r) /\ ShareOnly

Spec == InitShare /\ [][NextShare]_vars

-----------------------------------------------------------------------------
(* Properties of the work distributor *)

N == Len(values)

\* The ranks on which the item of index k has been yielded.
YieldedOn(k) ==
    {r \in Procs : \E j \in 1 .. Len(yielded[r]) : yielded[r][j] = values[k + 1]}

\* How many times rank r has been yielded the item of index k.
Occurrences(r, k) ==
    Cardinality({j \in 1 .. Len(yielded[r]) : yielded[r][j] = values[k + 1]})

AllExhausted == \A r \in Procs : exit[r] = "exhausted"

\* C1 as stated: once all ranks have iterated to exhaustion, every item
\* index 0..N-1 has been yielded on exactly one rank, for every N and S.
C1_ExactlyOneRankAlways ==
    AllExhausted =>
        \A k \in 0 .. (N - 1) :
            /\ Cardinality(YieldedOn(k)) = 1
            /\ \A r \in YieldedOn(k) : Occurrences(r, k) = 1

\* C1 amended: once all ranks have iterated to exhaustion, every item index
\* 0..N-1 has been yielded on at least one rank (no omission), and when
\* S <= N on exactly one rank, exactly once.
C1_NoOmissionAndOneRankWhenSizeAtMostN ==
    AllExhausted =>
        \A k \in 0 .. (N - 1) :
            /\ YieldedOn(k) /= {}
            /\ nprocs <= N =>
                  /\ Cardinality(YieldedOn(k)) = 1
                  /\ \A r \in YieldedOn(k) : Occurrences(r, k) = 1

C1_Witness ==
    /\ AllExhausted
    /\ nprocs >= 2
    /\ N > nprocs
    /\ \A r \in Procs : pc[r] = "past"

\* C2: on each rank the items returned by successive next() calls are
\* values[r0], values[r0 + s], values[r0 + 2s], ... with every index < N,
\* where r0 and s are the rank and size of cpus taken at construction; no
\* index is returned twice, and exhaustion is signalled only at an index >= N.
C2_StridedSequence ==
    \A r \in Procs :
        cpus[r] /= NoComm =>
            LET r0 == Get_rank(cpus[r], r)
                s == Get_size(cpus[r])
            IN  /\ \A j \in 1 .. Len(yielded[r]) :
                       /\ r0 + (j - 1) * s < N
                       /\ yielded[r][j] = values[r0 + (j - 1) * s + 1]
                /\ \A j1, j2 \in 1 .. Len(yielded[r]) :
                       j1 /= j2 => yielded[r][j1] /= yielded[r][j2]
                /\ exit[r] = "exhausted" => r0 + Len(yielded[r]) * s >= N
                /\ i[r] = r0 + Len(yielded[r]) * s

C2_Witness ==
    \E r \in Procs :
        /\ exit[r] = "exhausted"
        /\ Len(yielded[r]) >= 2
        /\ Get_size(cpus[r]) >= 2
        /\ Get_rank(cpus[r], r) >= 1

\* C3: whichever way the loop is left (exhaustion, break, an exception of
\* the body), once control is past the loop __del__ has run exactly once
\* and the stack is as it was before the iteration; __del__ never runs
\* more than once, and not while the loop is still running.
C3_TeardownOnce ==
    \A r \in Procs :
        /\ dels[r] <= 1
        /\ pc[r] \in {"loop", "next_barrier", "body"} => dels[r] = 0
        /\ (pc[r] = "past" /\ exit[r] \in {"exhausted", "break", "raise"}) =>
              /\ dels[r] = 1
              /\ stack[r] = <<BaseCommunicator(nprocs, r)>>

C3_Witness ==
    /\ \E r \in Procs : pc[r] = "past" /\ exit[r] = "exhausted"
    /\ \E r \in Procs : pc[r] = "past" /\ exit[r] = "break"
    /\ \E r \in Procs : pc[r] = "past" /\ exit[r] = "raise"

\* C4: for an empty list the loop completes normally on every rank: no
\* error, nothing yielded, the push and the barrier and pop performed.
C4_EmptyListCompletes ==
    \A r \in Procs :
        (N = 0 /\ pc[r] = "past") =>
            /\ exit[r] = "exhausted"
            /\ yielded[r] = <<>>
            /\ dels[r] = 1
            /\ stack[r] = <<BaseCommunicator(nprocs, r)>>

\* The pair getSplitCommunicators(len(values)) returns on rank r.
Pair(r) == getSplitCommunicators(BaseCommunicator(nprocs, r), r, N)

\* C14 as stated: the iteration pushes the first element of the pair and
\* takes its start index and stride from the second.
C14_PushesFirstStridesSecond ==
    \A r \in Procs :
        cpus[r] /= NoComm =>
            LET pair == Pair(r)
            IN  /\ log[r][1] = [ev |-> "push", comm |-> pair[1]]
                /\ i[r] = Get_rank(pair[2], r)
                            + Len(yielded[r]) * Get_size(pair[2])

\* C14 amended: the iteration pushes the second element of the pair (sub,
\* kept as leftover) at construction and takes its start index and stride
\* from the first (next, kept as cpus).
C14_PushesSecondStridesFirst ==
    \A r \in Procs :
        cpus[r] /= NoComm =>
            LET pair == Pair(r)
            IN  /\ log[r][1] = [ev |-> "push", comm |-> pair[2]]
                /\ pc[r] \in {"loop", "next_barrier", "body"} =>
                      getCommunicator(stack[r]) = pair[2]
                /\ i[r] = Get_rank(pair[1], r)
                            + Len(yielded[r]) * Get_size(pair[1])

C14_Witness ==
    \E r \in Procs :
        /\ pc[r] = "body"
        /\ Len(yielded[r]) >= 2
        /\ Get_size(Pair(r)[1]) >= 2
        /\ Get_rank(Pair(r)[1], r) >= 1

\* Rank r has left the loop it had begun and its teardown is over.
TornDown(r) == pc[r] = "past" /\ exit[r] \in {"exhausted", "break", "raise"}

\* C15 as stated: the closing barrier is on the communicator of the
\* barriers of every advance, it comes before the pop, and the pop expects
\* the communicator pushed at construction.
C15_ClosingBarrierOnAdvanceCommunicator ==
    \A r \in Procs :
        TornDown(r) =>
            LET n == Len(log[r])
            IN  /\ log[r][1].ev = "push"
                /\ log[r][n].ev = "pop" /\ log[r][n].comm = log[r][1].comm
                /\ log[r][n - 1].ev = "barrier"
                /\ \A k \in 2 .. (n - 2) :
                       /\ log[r][k].ev = "barrier"
                       /\ log[r][k].comm = log[r][n - 1].comm

\* C15 amended: the barrier of every advance is on leftover, the pushed
\* communicator; the closing barrier is on cpus, another communicator (the
\* one the stride is taken from); it comes before the pop, and the pop
\* expects the communicator pushed at construction.
C15_ClosingBarrierOnCpus ==
    \A r \in Procs :
        TornDown(r) =>
            LET n == Len(log[r])
            IN  /\ log[r][1].ev = "push" /\ log[r][1].comm = leftover[r]
                /\ log[r][n].ev = "pop" /\ log[r][n].comm = log[r][1].comm
                /\ log[r][n - 1].ev = "barrier"
                /\ log[r][n - 1].comm = cpus[r]
                /\ cpus[r] /= leftover[r]
                /\ n >= 4
                /\ \A k \in 2 .. (n - 2) :
                       /\ log[r][k].ev = "barrier"
                       /\ log[r][k].comm = leftover[r]

C15_Witness ==
    \E r \in Procs :
        /\ TornDown(r)
        /\ exit[r] = "break"
        /\ Len(log[r]) >= 5
        /\ Get_size(cpus[r]) >= 2

\* Rank r waits in a collective call that cannot return in this state.
Blocked(r) ==
    \/ pc[r] = "next_barrier" /\ ~BarrierReturns(leftover[r], r)
    \/ pc[r] = "del_barrier" /\ ~BarrierReturns(cpus[r], r)
    \/ pc[r] = "split" /\ \E m \in Procs : pc[m] = "start"

\* C18: when every rank iterates to exhaustion (N >= 1, no break, no
\* exception), the run never ends with a rank blocked at a barrier, and
\* once all ranks are past the loop every communicator's barrier has been
\* entered the same number of times by all of its members.
C18_NoRankBlockedForever ==
    (N >= 1 /\ \A r \in Procs : exit[r] \in {"none", "exhausted"}) =>
        /\ ~(/\ \E r \in Procs : Blocked(r)
             /\ \A r \in Procs : pc[r] = "past" \/ Blocked(r))
        /\ (\A r \in Procs : pc[r] = "past") =>
              \A r \in Procs :
                  /\ \A m \in cpus[r].members :
                         Arrivals(cpus[r], m) = Arrivals(cpus[r], r)
                  /\ \A m \in leftover[r].members :
                         Arrivals(leftover[r], m) = Arrivals(leftover[r], r)

\* C19: while a rank processes an item, its current communicator is the
\* one the iterator pushed, and every member of that communicator is at the
\* same item index in the same iteration: none has another item there and
\* none has run out of items before.
C19_GroupProcessesSameItem ==
    \A r \in Procs :
        pc[r] = "body" =>
            /\ getCommunicator(stack[r]) = leftover[r]
            /\ log[r][1] = [ev |-> "push", comm |-> leftover[r]]
            /\ LET j == Len(yielded[r])
               IN  \A m \in leftover[r].members :
                       /\ Len(yielded[m]) >= j => yielded[m][j] = yielded[r][j]
                       /\ ~(exit[m] = "exhausted" /\ Len(yielded[m]) < j)

-----------------------------------------------------------------------------
(* ParaRandom: every rank r of num_proc holds its own base source, seeded  *)
(* alike on all ranks, and wraps it as ParaRandom(base, num_proc, r).  The *)
(* base source is the stream d0, d1, d2, ...; its state is the number of   *)
(* draws taken so far, and the draw it returns is named by its position.   *)

\* self._rng.random() on a base source that has given `taken' draws.
BaseRandom(taken) == [value |-> taken, rng |-> taken + 1]

\* for i in range(n): self._rng.random()
RECURSIVE Discard(_, _)
Discard(taken, n) ==
    IF n <= 0 THEN taken ELSE Discard(BaseRandom(taken).rng, n - 1)

\* ParaRandom.__init__: the state of _rng after construction with `rank'.
ParaRandom_init(taken, rank) == Discard(taken, rank)

\* random() that moves on by fewer draws than there are processes.
ParaRandom_random_short(taken, nproc) ==
    LET r == BaseRandom(taken)
    IN  [value |-> r.value, rng |-> Discard(r.rng, nproc - 2)]

\* ParaRandom.random: the draw returned and the state of _rng afterwards.
ParaRandom_random(taken, nproc) ==
    LET r == BaseRandom(taken)
    IN  [value |-> r.value, rng |-> Discard(r.rng, nproc)]

RandProcs == 0 .. (num_proc - 1)

InitRandom ==
    /\ num_proc \in 1 .. MaxProc
    /\ made = [r \in RandProcs |-> FALSE]
    /\ rng = [r \in RandProcs |-> 0]
    /\ out = [r \in RandProcs |-> <<>>]
    /\ nprocs = 1 /\ values = <<>> /\ pc = <<>> /\ cpus = <<>>
    /\ leftover = <<>> /\ i = <<>> /\ stack = <<>> /\ barriers = <<>>
    /\ yielded = <<>> /\ exit = <<>> /\ dels = <<>> /\ log = <<>>
    /\ pstack = <<>> /\ hist = <<>>
    /\ jobs = 1 /\ spc = <<>> /\ sres = <<>> /\ splits = <<>>
    /\ nestP = <<>> /\ nestRank = <<>> /\ nestMade = <<>>
    /\ nestRng = <<>> /\ nestOut = <<>>

\* Rank r makes ParaRandom(base, num_proc, r) from its freshly seeded base.
MakeParaRandom(r) ==
    /\ ~made[r]
    /\ made' = [made EXCEPT ![r] = TRUE]
    /\ rng' = [rng EXCEPT ![r] = ParaRandom_init(rng[r], r)]
    /\ UNCHANGED <<num_proc, out>>

\* Rank r calls random() on its ParaRandom.
CallRandom(r) ==
    /\ made[r]
    /\ Len(out[r]) < MaxCalls
    /\ LET res == ParaRandom_random(rng[r], num_proc)
       IN  /\ out' = [out EXCEPT ![r] = Append(@, res.value)]
           /\ rng' = [rng EXCEPT ![r] = res.rng]
    /\ UNCHANGED <<num_proc, made>>

NextRandom ==
    \/ \E r \in RandProcs : MakeParaRandom(r) /\ UNCHANGED <<shareVars, stackVars, splitVars, nestVars>>
    \/ \E r \in RandProcs : CallRandom(r) /\ UNCHANGED <<shareVars, stackVars, splitVars, nestVars>>

SpecRandom == InitRandom /\ [][NextRandom]_vars

\* C5: the k-th call (0-based) of random() on rank r of P returns the draw
\* d[r + k*P] of the base stream.
C5_KthDrawIsRankPlusKTimesP ==
    \A r \in RandProcs :
        \A k \in 0 .. (Len(out[r]) - 1) : out[r][k + 1] = r + k * num_proc

\* C6: with num_proc = 1 and rank 0 the values returned are those the base
\* source gives to as many direct calls, d0, d1, ..., and the base source
\* has moved on by one draw per call.
C6_PassThroughForOneProcess ==
    (num_proc = 1 /\ made[0]) =>
        /\ \A k \in 0 .. (Len(out[0]) - 1) : out[0][k + 1] = k
        /\ rng[0] = Len(out[0])

\* C7: no draw of the base stream is returned on two different ranks,
\* whatever the call numbers.
C7_NoDrawOnTwoRanks ==
    \A r1, r2 \in RandProcs :
        r1 /= r2 =>
            \A k1 \in 1 .. Len(out[r1]) :
                \A k2 \in 1 .. Len(out[r2]) : out[r1][k1] /= out[r2][k2]

C7_Witness ==
    /\ num_proc >= 3
    /\ \A r \in RandProcs : Len(out[r]) >= 2

-----------------------------------------------------------------------------
(* Nested ParaRandom: a process with ranks <<r1, r2>> makes                *)
(*     inner = ParaRandom(base, P1, r1); outer = ParaRandom(inner, P2, r2) *)
(* and draws from outer.  Two processes with different <<r1, r2>> and base *)
(* sources seeded alike are followed.                                      *)

\* for i in range(n): self._rng.random(), with _rng a ParaRandom of p1.
RECURSIVE NestedDiscard(_, _, _)
NestedDiscard(taken, n, p1) ==
    IF n <= 0 THEN taken
    ELSE NestedDiscard(ParaRandom_random(taken, p1).rng, n - 1, p1)

\* The base source after ParaRandom(ParaRandom(base, p1, r1), p2, r2).
Nested_init(taken, r1, r2, p1) ==
    NestedDiscard(ParaRandom_init(taken, r1), r2, p1)

\* outer.random(): a draw of the inner ParaRandom, then p2 more discarded.
Nested_random(taken, p1, p2) ==
    LET r == ParaRandom_random(taken, p1)
    IN  [value |-> r.value, rng |-> NestedDiscard(r.rng, p2, p1)]

NestProcs == {1, 2}

InitNested ==
    /\ nestP \in (1 .. MaxNestProc) \X (1 .. MaxNestProc)
    /\ nestRank \in [NestProcs -> (0 .. (nestP[1] - 1)) \X (0 .. (nestP[2] - 1))]
    /\ nestRank[1] /= nestRank[2]
    /\ nestMade = [q \in NestProcs |-> FALSE]
    /\ nestRng = [q \in NestProcs |-> 0]
    /\ nestOut = [q \in NestProcs |-> <<>>]
    /\ nprocs = 1 /\ values = <<>> /\ pc = <<>> /\ cpus = <<>>
    /\ leftover = <<>> /\ i = <<>> /\ stack = <<>> /\ barriers = <<>>
    /\ yielded = <<>> /\ exit = <<>> /\ dels = <<>> /\ log = <<>>
    /\ num_proc = 1 /\ made = <<>> /\ rng = <<>> /\ out = <<>>
    /\ pstack = <<>> /\ hist = <<>>
    /\ jobs = 1 /\ spc = <<>> /\ sres = <<>> /\ splits = <<>>

NestedOnly == UNCHANGED <<shareVars, randVars, stackVars, splitVars, nestP, nestRank>>

\* Process q makes its two layers from its freshly seeded base source.
MakeNested(q) ==
    /\ ~nestMade[q]
    /\ nestMade' = [nestMade EXCEPT ![q] = TRUE]
    /\ nestRng' = [nestRng EXCEPT ![q] =
                      Nested_init(@, nestRank[q][1], nestRank[q][2], nestP[1])]
    /\ UNCHANGED nestOut
    /\ NestedOnly

\* Process q calls random() on its outer ParaRandom.
CallNestedRandom(q) ==
    /\ nestMade[q]
    /\ Len(nestOut[q]) < MaxCalls
    /\ LET res == Nested_random(nestRng[q], nestP[1], nestP[2])
       IN  /\ nestOut' = [nestOut EXCEPT ![q] = Append(@, res.value)]
           /\ nestRng' = [nestRng EXCEPT ![q] = res.rng]
    /\ UNCHANGED nestMade
    /\ NestedOnly

NextNested ==
    \/ \E q \in NestProcs : MakeNested(q)
    \/ \E q \in NestProcs : CallNestedRandom(q)

SpecNested == InitNested /\ [][NextNested]_vars

\* C17: two processes whose rank pairs <<r1, r2>> differ are never
\* returned the same draw of the base stream, whatever the call numbers.
C17_NestedNoDrawOnTwoProcesses ==
    \A k1 \in 1 .. Len(nestOut[1]) :
        \A k2 \in 1 .. Len(nestOut[2]) : nestOut[1][k1] /= nestOut[2][k2]

C17_Witness ==
    /\ nestP[1] >= 2 /\ nestP[2] >= 2
    /\ nestRank[1][1] /= nestRank[2][1]
    /\ nestRank[1][2] /= nestRank[2][2]
    /\ Len(nestOut[1]) >= 3 /\ Len(nestOut[2]) >= 3

-----------------------------------------------------------------------------
(* The communicator stack on its own: one process of a two-process job     *)
(* makes push and pop calls in any order with any of a few communicators.  *)

\* The communicators the calls are made with: COMM_WORLD and two
\* _FakeCommunicator objects, alike but not identical.
Pool == {COMM_WORLD(2), FakeCommunicator(0, 1), FakeCommunicator(0, 2)}

InitStack ==
    /\ pstack = <<BaseCommunicator(2, 0)>>
    /\ hist = <<>>
    /\ nprocs = 1 /\ values = <<>> /\ pc = <<>> /\ cpus = <<>>
    /\ leftover = <<>> /\ i = <<>> /\ stack = <<>> /\ barriers = <<>>
    /\ yielded = <<>> /\ exit = <<>> /\ dels = <<>> /\ log = <<>>
    /\ num_proc = 1 /\ made = <<>> /\ rng = <<>> /\ out = <<>>
    /\ jobs = 1 /\ spc = <<>> /\ sres = <<>> /\ splits = <<>>
    /\ nestP = <<>> /\ nestRank = <<>> /\ nestMade = <<>>
    /\ nestRng = <<>> /\ nestOut = <<>>

CallPush(context) ==
    /\ Len(hist) < MaxOps
    /\ pstack' = push(pstack, context)
    /\ hist' = Append(hist, [op |-> "push", arg |-> context, before |-> pstack,
                             after |-> pstack', ret |-> NoComm, err |-> "none"])

\* pop(context); context = NoComm is pop() with no expectation.
CallPop(context) ==
    /\ Len(hist) < MaxOps
    /\ LET res == pop(pstack, context)
       IN  /\ pstack' = res.stack
           /\ hist' = Append(hist, [op |-> "pop", arg |-> context,
                                    before |-> pstack, after |-> res.stack,
                                    ret |-> res.ret, err |-> res.err])

NextStack ==
    \/ \E c \in Pool : CallPush(c) /\ UNCHANGED <<shareVars, randVars, splitVars, nestVars>>
    \/ \E c \in Pool \cup {NoComm} : CallPop(c) /\ UNCHANGED <<shareVars, randVars, splitVars, nestVars>>

SpecStack == InitStack /\ [][NextStack]_vars

\* Calls j .. j+3 of hist are push(A); push(B); pop(B); pop(A).
IsPushPushPopPop(j, A, B) ==
    /\ j + 3 <= Len(hist)
    /\ hist[j].op = "push" /\ hist[j].arg = A
    /\ hist[j + 1].op = "push" /\ hist[j + 1].arg = B
    /\ hist[j + 2].op = "pop" /\ hist[j + 2].arg = B
    /\ hist[j + 3].op = "pop" /\ hist[j + 3].arg = A

\* C8: from any stack, push(A); push(B); pop(B); pop(A) succeeds, the pops
\* return B and then A, and the stack afterwards is the stack before.
C8_PushPushPopPopRestores ==
    \A j \in 1 .. Len(hist) : \A A, B \in Pool :
        IsPushPushPopPop(j, A, B) =>
            /\ hist[j + 2].err = "none" /\ hist[j + 2].ret = B
            /\ hist[j + 3].err = "none" /\ hist[j + 3].ret = A
            /\ hist[j + 3].after = hist[j].before

C8_Witness ==
    \E A, B \in Pool :
        /\ A /= B
        /\ IsPushPushPopPop(2, A, B)
        /\ Len(hist[2].before) >= 2

\* C9: a pop from a stack with a top element fails its assertion exactly
\* when an expectation is given and is not the very object on top; pop()
\* and pop(X) with X on top succeed on a stack of two or more elements and
\* return the top.
C9_PopFailsIffNotTop ==
    \A j \in 1 .. Len(hist) :
        (hist[j].op = "pop" /\ hist[j].before /= <<>>) =>
            LET top == hist[j].before[Len(hist[j].before)]
            IN  /\ hist[j].err = "AssertionError"
                     <=> (hist[j].arg /= NoComm /\ hist[j].arg /= top)
                /\ (Len(hist[j].before) >= 2 /\ hist[j].arg \in {NoComm, top})
                     => (hist[j].err = "none" /\ hist[j].ret = top)

C9_Witness ==
    \E j, k \in 1 .. Len(hist) :
        /\ hist[j].op = "pop" /\ hist[j].err = "AssertionError"
        /\ hist[j].arg.kind = "fake"
        /\ hist[j].before[Len(hist[j].before)].kind = "fake"
        /\ hist[k].op = "pop" /\ hist[k].err = "none"
        /\ hist[k].arg /= NoComm /\ Len(hist[k].before) >= 2

\* C10: the stack is never empty.
C10_StackNeverEmpty == pstack /= <<>>

\* C20 as stated: a pop that fails its expectation check leaves the stack
\* as it was before the call.
C20_FailedPopLeavesStack ==
    \A j \in 1 .. Len(hist) :
        (hist[j].op = "pop" /\ hist[j].err = "AssertionError") =>
            hist[j].after = hist[j].before

\* C20 amended: a pop that fails its expectation check has already removed
\* the top element: the stack afterwards is the stack before without its
\* last element, the mismatching one.
C20_FailedPopHasRemovedTop ==
    \A j \in 1 .. Len(hist) :
        (hist[j].op = "pop" /\ hist[j].err = "AssertionError") =>
            /\ Len(hist[j].after) = Len(hist[j].before) - 1
            /\ hist[j].before =
                   Append(hist[j].after, hist[j].before[Len(hist[j].before)])
            /\ hist[j].before[Len(hist[j].before)] /= hist[j].arg

C20_Witness ==
    \E j \in 1 .. Len(hist) :
        /\ hist[j].op = "pop" /\ hist[j].err = "AssertionError"
        /\ Len(hist[j].before) >= 2
        /\ j < Len(hist)

-----------------------------------------------------------------------------
(* getSplitCommunicators on its own: every rank of COMM_WORLD calls        *)
(* getSplitCommunicators(jobs) with the same jobs.                         *)
(* spc: "start" -> "failed" | ["split" ->] "done"                          *)

InitSplit ==
    /\ nprocs \in 1 .. MaxSize
    /\ jobs \in -1 .. MaxJobs
    /\ stack = [r \in Procs |-> <<BaseCommunicator(nprocs, r)>>]
    /\ spc = [r \in Procs |-> "start"]
    /\ sres = [r \in Procs |-> <<NoComm, NoComm>>]
    /\ splits = [r \in Procs |-> 0]
    /\ values = <<>> /\ pc = <<>> /\ cpus = <<>> /\ leftover = <<>>
    /\ i = <<>> /\ barriers = <<>> /\ yielded = <<>> /\ exit = <<>>
    /\ dels = <<>> /\ log = <<>>
    /\ num_proc = 1 /\ made = <<>> /\ rng = <<>> /\ out = <<>>
    /\ pstack = <<>> /\ hist = <<>>
    /\ nestP = <<>> /\ nestRank = <<>> /\ nestMade = <<>>
    /\ nestRng = <<>> /\ nestOut = <<>>

\* Everything a direct getSplitCommunicators call leaves alone.
SplitOnly ==
    UNCHANGED <<nprocs, values, pc, cpus, leftover, i, stack, barriers,
                yielded, exit, dels, log, randVars, stackVars, nestVars, jobs>>

\* getSplitCommunicators(jobs) up to its return, its failed assertion or
\* its first comm.Split call.
CallGetSplit(r) ==
    /\ spc[r] = "start"
    /\ LET comm == getCommunicator(stack[r])
       IN  IF ~JobsAccepted(jobs)
           THEN /\ spc' = [spc EXCEPT ![r] = "failed"]
                /\ UNCHANGED <<sres, splits>>
           ELSE IF NeedsSplit(comm, jobs)
           THEN /\ spc' = [spc EXCEPT ![r] = "split"]
                /\ splits' = [splits EXCEPT ![r] = @ + 1]
                /\ UNCHANGED sres
           ELSE /\ spc' = [spc EXCEPT ![r] = "done"]
                /\ sres' = [sres EXCEPT ![r] = getSplitCommunicators(comm, r, jobs)]
                /\ UNCHANGED splits
    /\ SplitOnly

\* The first comm.Split returns once every member has called it; the second
\* follows and the pair is returned.
GetSplitReturns(r) ==
    /\ spc[r] = "split"
    /\ LET comm == getCommunicator(stack[r])
       IN  /\ \A m \in comm.members : spc[m] /= "start"
           /\ sres' = [sres EXCEPT ![r] = getSplitCommunicators(comm, r, jobs)]
    /\ splits' = [splits EXCEPT ![r] = @ + 1]
    /\ spc' = [spc EXCEPT ![r] = "done"]
    /\ SplitOnly

NextSplit ==
    \/ \E r \in Procs : CallGetSplit(r)
    \/ \E r \in Procs : GetSplitReturns(r)

SpecSplit == InitSplit /\ [][NextSplit]_vars

\* The communicator the calls are made on.
SplitComm(r) == getCommunicator(stack[r])

Outer(r) == sres[r][1]

Inner(r) == sres[r][2]

AllSplitDone == \A r \in Procs : spc[r] = "done"

InnerGroups == {Inner(r).members : r \in Procs}

OuterGroups == {Outer(r).members : r \in Procs}

\* C11 as stated: for every size >= 1, jobs = size returns the communicator
\* itself first and a one-process communicator (rank 0, size 1) second.
C11_JobsEqualSizeAnySize ==
    \A r \in Procs :
        (spc[r] = "done" /\ jobs = Get_size(SplitComm(r))) =>
            /\ Outer(r) = SplitComm(r)
            /\ Get_rank(Inner(r), r) = 0 /\ Get_size(Inner(r)) = 1

\* C11 amended: for every size >= 2, jobs = size returns the communicator
\* itself first and a fresh one-process communicator second; for size 1 the
\* first is a fresh one-process communicator and the second is the
\* communicator itself.
C11_JobsEqualSize ==
    \A r \in Procs :
        (spc[r] = "done" /\ jobs = Get_size(SplitComm(r))) =>
            /\ Get_rank(Inner(r), r) = 0 /\ Get_size(Inner(r)) = 1
            /\ Get_size(SplitComm(r)) >= 2 =>
                  /\ Outer(r) = SplitComm(r)
                  /\ Inner(r).kind = "fake" /\ Inner(r) /= SplitComm(r)
            /\ Get_size(SplitComm(r)) = 1 =>
                  /\ Inner(r) = SplitComm(r)
                  /\ Outer(r).kind = "fake" /\ Outer(r) /= SplitComm(r)

C11_Witness ==
    /\ nprocs >= 3
    /\ jobs = nprocs
    /\ AllSplitDone

\* C12: for 1 < jobs < size every rank is in exactly one inner group (the
\* ranks of its colour rank % jobs) and one outer group (colour
\* rank // jobs); the inner groups are disjoint, cover all ranks, number
\* exactly jobs, and their sizes differ by at most 1.
C12_InnerGroupsPartition ==
    (AllSplitDone /\ 1 < jobs /\ jobs < nprocs) =>
        /\ \A r \in Procs :
              /\ Inner(r).members = {m \in Procs : m % jobs = r % jobs}
              /\ Outer(r).members = {m \in Procs : m \div jobs = r \div jobs}
              /\ Cardinality({g \in InnerGroups : r \in g}) = 1
              /\ Cardinality({g \in OuterGroups : r \in g}) = 1
              /\ \A m \in Inner(r).members : Inner(m) = Inner(r)
        /\ \A g1, g2 \in InnerGroups : g1 /= g2 => g1 \cap g2 = {}
        /\ UNION InnerGroups = Procs
        /\ Cardinality(InnerGroups) = jobs
        /\ \A g1, g2 \in InnerGroups : Cardinality(g1) - Cardinality(g2) <= 1

C12_Witness ==
    /\ AllSplitDone
    /\ jobs = 3
    /\ nprocs = 4

\* C13: with jobs <= 0 the call fails its assertion, makes no Split and
\* leaves the stack as it was; with jobs > 0 it never fails and what it
\* returns is a pair of communicators.
C13_AssertionOnJobs ==
    \A r \in Procs :
        /\ stack[r] = <<BaseCommunicator(nprocs, r)>>
        /\ (spc[r] /= "start" /\ jobs <= 0) =>
              /\ spc[r] = "failed"
              /\ splits[r] = 0
              /\ sres[r] = <<NoComm, NoComm>>
        /\ (spc[r] /= "start" /\ jobs > 0) => spc[r] \in {"split", "done"}
        /\ (spc[r] = "done") =>
              /\ jobs > 0
              /\ Outer(r) /= NoComm /\ Inner(r) /= NoComm
              /\ r \in Outer(r).members /\ r \in Inner(r).members

C13_Witness ==
    /\ jobs <= 0
    /\ nprocs >= 2
    /\ \A r \in Procs : spc[r] = "failed"

\* C16: for 1 < jobs < size every outer communicator holds exactly one rank
\* of each inner group: its size is the number of inner groups and no two
\* of its members share an inner group.
C16_OuterHasOneRankPerInnerGroup ==
    (AllSplitDone /\ 1 < jobs /\ jobs < nprocs) =>
        \A r \in Procs :
            /\ Get_size(Outer(r)) = Cardinality(InnerGroups)
            /\ \A m1, m2 \in Outer(r).members :
                   m1 /= m2 => Inner(m1) /= Inner(m2)

====
